---- MODULE Spec2Model ----
(***************************************************************************)
(* Mortise template generator: the server's generate pipeline              *)
(* (src/server/routes.ts, src/server/storage.ts, src/shared/schema.ts) and *)
(* the viewer's STL decoder (src/client/src/components/CustomSTLLoader.ts). *)
(*                                                                         *)
(* Units.  Lengths given in inches are integers counting 1/160 inch        *)
(* (160 per inch); lengths in millimetres are integers counting 1/800 mm    *)
(* (800 per millimetre).  One 1/160 inch is 127/800 mm, so the conversion   *)
(* "* scale_factor" (25.4 mm per inch) is exact multiplication by 127.     *)
(* Diameters are drawn on the 1/80 inch grid, so (bushing - bit) / 2 is    *)
(* exact.  Floating-point rounding of the JavaScript doubles is outside    *)
(* the model.                                                              *)
(***************************************************************************)
EXTENDS Integers, Sequences, FiniteSets, TLC

VARIABLES pc, body, derived, script, probe, files, timestamp, renderStarted,
          response, buf, dpc, reader, mesh, derr, maxRead,
          stl, vpc, geometry, verr, fin, fout,
          source, shape, box, npc,
          now, inv, disk,
          mounted, effect, scenes, sceneRef, modelRef, animationFrameRef,
          scheduled, loopCount, ctx, loading,
          previewUrl, showPreview, isPending, revoked, urlCount, clicks, stlError,
          tempDir, generated, req

vars == <<pc, body, derived, script, probe, files, timestamp, renderStarted,
          response, buf, dpc, reader, mesh, derr, maxRead,
          stl, vpc, geometry, verr, fin, fout,
          source, shape, box, npc,
          now, inv, disk,
          mounted, effect, scenes, sceneRef, modelRef, animationFrameRef,
          scheduled, loopCount, ctx, loading,
          previewUrl, showPreview, isPending, revoked, urlCount, clicks, stlError,
          tempDir, generated, req>>

serverVars == <<pc, body, derived, script, probe, files, timestamp,
                renderStarted, response>>

codecVars == <<buf, dpc, reader, mesh, derr, maxRead>>

viewerVars == <<stl, vpc, geometry, verr>>

formatVars == <<fin, fout>>

normVars == <<source, shape, box, npc>>

concVars == <<now, inv, disk>>

effectVars == <<mounted, effect, scenes, sceneRef, modelRef, animationFrameRef,
                 scheduled, loopCount, ctx, loading>>

formVars == <<previewUrl, showPreview, isPending, revoked, urlCount, clicks, stlError>>

routeVars == <<tempDir, generated, req>>

\* the variables of the sections that follow the viewer's
laterVars == <<concVars, effectVars, formVars, routeVars>>

earlierVars == <<serverVars, codecVars, viewerVars, formatVars, normVars>>

othersOfConc == <<earlierVars, effectVars, formVars, routeVars>>

othersOfEffect == <<earlierVars, concVars, formVars, routeVars>>

othersOfForm == <<earlierVars, concVars, effectVars, routeVars>>

othersOfRoute == <<earlierVars, concVars, effectVars, formVars>>

None == [none |-> TRUE]

NoError == "none"

----------------------------------------------------------------------------
(* Units and conversion *)

\* decimal inches written as a fraction num/den, on the 1/160 inch grid
Inch(num, den) == (num * 160) \div den

\* millimetres written as a fraction num/den, on the 1/800 mm grid
Milli(num, den) == (num * 800) \div den

\* x * scale_factor, scale_factor = 25.4
scale_factor(x) == x * 127

----------------------------------------------------------------------------
(* Request bodies *)

BushingValues == {Inch(1, 5), Inch(5, 16), Inch(2, 1)}

BitValues == {Inch(1, 4), Inch(2, 1)}

MortiseLengthValues == {Inch(7, 4), Inch(10, 1)}

MortiseWidthValues == {Inch(1, 10), Inch(3, 8)}

EdgeDistanceValues == {Inch(1, 10), Inch(1, 4), Inch(5, 1)}

ExtensionLengthValues == {Inch(-1, 1), Inch(1, 10), Inch(3, 1), Inch(251, 1)}

ExtensionWidthValues == {Inch(1, 10), Inch(3, 1)}

EdgePositions == {"left", "right"}

UnitSystems == {"imperial", "metric"}

Bodies ==
    [unit_system : UnitSystems,
     bushing_OD_in : BushingValues,
     bit_diameter_in : BitValues,
     mortise_length_in : MortiseLengthValues,
     mortise_width_in : MortiseWidthValues,
     edge_distance_in : EdgeDistanceValues,
     edge_position : EdgePositions \cup {"top"},
     extension_length_in : ExtensionLengthValues,
     extension_width_in : ExtensionWidthValues]

\* z.number().min(lo).max(hi)
InRange(x, lo, hi) == lo <= x /\ x <= hi

mortiseTemplateSchema(p) ==
    /\ p.unit_system \in {"imperial", "metric"}
    /\ InRange(p.bushing_OD_in, Inch(1, 10), Inch(50, 1))
    /\ InRange(p.bit_diameter_in, Inch(1, 10), Inch(50, 1))
    /\ InRange(p.mortise_length_in, Inch(1, 10), Inch(250, 1))
    /\ InRange(p.mortise_width_in, Inch(1, 10), Inch(250, 1))
    /\ InRange(p.edge_distance_in, Inch(1, 10), Inch(125, 1))
    /\ p.edge_position \in {"left", "right"}
    /\ InRange(p.extension_length_in, Inch(1, 10), Inch(250, 1))
    /\ InRange(p.extension_width_in, Inch(1, 10), Inch(250, 1))

----------------------------------------------------------------------------
(* The solid-model script of DatabaseStorage.generateOpenSCADContent: the   *)
(* values its assignments give the script's variables, in millimetres.      *)

template_thickness_in == Inch(1, 4)

edge_height_in == Inch(1, 2)

edge_thickness_in == Inch(3, 8)

text_depth == Milli(3, 4)

template_thickness == scale_factor(template_thickness_in)

edge_height == scale_factor(edge_height_in)

edge_thickness == scale_factor(edge_thickness_in)

offset(p) == (scale_factor(p.bushing_OD_in) - scale_factor(p.bit_diameter_in)) \div 2

\* (edge_distance_in + offset / scale_factor) * scale_factor
adjusted_edge_distance(p) == scale_factor(p.edge_distance_in) + offset(p)

cutout_length_half(p) == scale_factor(p.mortise_length_in) + offset(p)

cutout_length(p) == scale_factor(p.mortise_length_in) + (offset(p) * 2)

cutout_width(p) == scale_factor(p.mortise_width_in) + (offset(p) * 2)

corner_radius(p) == scale_factor(p.bushing_OD_in) \div 2

template_length(p) == cutout_length(p) + (scale_factor(p.extension_length_in) * 2)

template_width_narrow(p) == scale_factor(p.mortise_width_in) + scale_factor(p.extension_width_in)

template_width(p) ==
    cutout_width(p) + scale_factor(Inch(2, 1)) + scale_factor(p.extension_width_in)

cutout_y_position(p) ==
    IF p.edge_position = "left"
    THEN adjusted_edge_distance(p) + edge_thickness
    ELSE template_width(p) - adjusted_edge_distance(p) - cutout_width(p) - edge_thickness

edge_x_offset(p) ==
    IF p.edge_position = "left" THEN 0 ELSE template_width(p) - edge_thickness

\* (template_length - cutout_length) / 2; the difference is 2 * extension_length
cutout_x_position(p) == (template_length(p) - cutout_length(p)) \div 2

text_size == Milli(3, 1)

line_spacing == Milli(5, 1)

text_start_x(p) == cutout_x_position(p)

text_start_y(p) ==
    IF p.edge_position = "left"
    THEN cutout_y_position(p) + cutout_width(p) + Milli(10, 1)
    ELSE cutout_y_position(p) - Milli(30, 1)

Derive(p) ==
    [offset |-> offset(p),
     adjusted_edge_distance |-> adjusted_edge_distance(p),
     cutout_length |-> cutout_length(p),
     cutout_width |-> cutout_width(p),
     corner_radius |-> corner_radius(p),
     template_length |-> template_length(p),
     template_width |-> template_width(p),
     cutout_x_position |-> cutout_x_position(p),
     cutout_y_position |-> cutout_y_position(p),
     edge_x_offset |-> edge_x_offset(p),
     text_start_x |-> text_start_x(p),
     text_start_y |-> text_start_y(p)]

----------------------------------------------------------------------------
(* The boolean tree the script ends with, and the solids it names.          *)

Prim(n) == [op |-> "prim", name |-> n, args |-> <<>>]

Node(o, a) == [op |-> o, name |-> "", args |-> a]

\* module mortise_template(): difference() { cube(...); translate(...) rounded_rectangle(...); }
mortise_template == Node("difference", <<Prim("plate"), Prim("cutout")>>)

\* Render Everything: difference() { union() { mortise_template(); edge_stop(); } template_text(); }
SolidModel ==
    Node("difference",
         <<Node("union", <<mortise_template, Prim("edge_stop")>>),
           Prim("template_text")>>)

RECURSIVE Eval(_, _)
\* is a point with primitive memberships m inside the solid the tree denotes
Eval(t, m) ==
    CASE t.op = "prim" -> m[t.name]
      [] t.op = "union" -> \E i \in 1..Len(t.args) : Eval(t.args[i], m)
      [] t.op = "difference" ->
            /\ Eval(t.args[1], m)
            /\ \A i \in 2..Len(t.args) : ~Eval(t.args[i], m)

Min(a, b) == IF a < b THEN a ELSE b

Max(a, b) == IF a < b THEN b ELSE a

Between(lo, x, hi) == lo < x /\ x < hi

\* cylinder(h=10, ...) in rounded_rectangle
cutout_height == Milli(10, 1)

\* y extent of hull() of the four cylinders, on the plate's lengthwise centre line
HullLo(p) == cutout_y_position(p) + Min(0, cutout_width(p) - 2 * corner_radius(p))

HullHi(p) == cutout_y_position(p) + Max(cutout_width(p), 2 * corner_radius(p))

\* cube([template_length, template_width, template_thickness])
InPlate(p, y, z) ==
    /\ template_length(p) > 0
    /\ Between(0, y, template_width(p))
    /\ Between(0, z, template_thickness)

\* translate([cutout_x_position, cutout_y_position, 0]) rounded_rectangle(...)
InCutout(p, y, z) ==
    /\ Between(HullLo(p), y, HullHi(p))
    /\ Between(0, z, cutout_height)

\* translate([0, edge_x_offset, template_thickness]) cube([template_length, edge_thickness, edge_height])
InEdgeStop(p, y, z) ==
    /\ template_length(p) > 0
    /\ Between(edge_x_offset(p), y, edge_x_offset(p) + edge_thickness)
    /\ Between(template_thickness, z, template_thickness + edge_height)

\* the box the six label lines are extruded in; which of its points a glyph covers
\* depends on the font
InTextBox(p, y, z) ==
    /\ Between(text_start_y(p) - 5 * line_spacing, y, text_start_y(p) + text_size)
    /\ Between(template_thickness - text_depth, z, template_thickness + Milli(1, 10))

Membership(p, y, z, glyph) ==
    [n \in {"plate", "cutout", "edge_stop", "template_text"} |->
        CASE n = "plate" -> InPlate(p, y, z)
          [] n = "cutout" -> InCutout(p, y, z)
          [] n = "edge_stop" -> InEdgeStop(p, y, z)
          [] n = "template_text" -> glyph /\ InTextBox(p, y, z)]

ProbeYs(p) ==
    {edge_x_offset(p) + edge_thickness \div 2,
     HullLo(p) + 1, HullHi(p) - 1,
     text_start_y(p) - line_spacing}

ProbeZs ==
    {template_thickness \div 2,
     template_thickness - text_depth \div 2,
     (template_thickness + cutout_height) \div 2,
     template_thickness + edge_height - 1}

----------------------------------------------------------------------------
(* POST /api/generate and DatabaseStorage.generateSTLFile *)

ScadFile(ts) == <<"mortise", ts, "scad">>

StlFile(ts) == <<"mortise", ts, "stl">>

MaxTimestamp == 1

\* values Date.now() can return
Timestamps == 0..MaxTimestamp

GenerateFailed == [status |-> 400, error |-> "Failed to generate STL file"]

\* a request arrives with body b
PostGenerate(b) ==
    /\ pc = "idle"
    /\ body' = b
    /\ pc' = "received"
    /\ UNCHANGED <<derived, script, probe, files, timestamp, renderStarted, response>>
    /\ UNCHANGED <<codecVars, viewerVars, formatVars, normVars, laterVars>>

\* mortiseTemplateSchema.parse(req.body): throws into the route's catch
ParseBody ==
    /\ pc = "received"
    /\ IF mortiseTemplateSchema(body)
       THEN pc' = "accepted" /\ response' = response
       ELSE pc' = "responded" /\ response' = GenerateFailed
    /\ UNCHANGED <<body, derived, script, probe, files, timestamp, renderStarted>>
    /\ UNCHANGED <<codecVars, viewerVars, formatVars, normVars, laterVars>>

\* Date.now(), generateOpenSCADContent(params), fs.writeFile(scadFile, scadContent)
WriteScad(ts) ==
    /\ pc = "accepted"
    /\ timestamp' = ts
    /\ derived' = Derive(body)
    /\ script' = SolidModel
    /\ files' = files \cup {ScadFile(ts)}
    /\ pc' = "written"
    /\ UNCHANGED <<body, probe, renderStarted, response>>
    /\ UNCHANGED <<codecVars, viewerVars, formatVars, normVars, laterVars>>

\* a point of space is tested against the solid the written script denotes
Probe(y, z, glyph) ==
    /\ pc = "written"
    /\ probe = {}
    /\ LET m == Membership(body, y, z, glyph)
       IN probe' = {[y |-> y, z |-> z, m |-> m, solid |-> Eval(script, m)]}
    /\ UNCHANGED <<pc, body, derived, script, files, timestamp, renderStarted, response>>
    /\ UNCHANGED <<codecVars, viewerVars, formatVars, normVars, laterVars>>

\* execAsync(`openscad -o stlFile scadFile`): the renderer writes the STL or fails
RunOpenSCAD(ok) ==
    /\ pc = "written"
    /\ renderStarted' = TRUE
    /\ probe' = {}
    /\ IF ok
       THEN files' = files \cup {StlFile(timestamp)} /\ pc' = "rendered"
       ELSE files' = files /\ pc' = "failed"
    /\ UNCHANGED <<body, derived, script, timestamp, response>>
    /\ UNCHANGED <<codecVars, viewerVars, formatVars, normVars, laterVars>>

\* fs.readFile(stlFile)
ReadStl ==
    /\ pc = "rendered"
    /\ pc' = IF StlFile(timestamp) \in files THEN "read" ELSE "failed"
    /\ UNCHANGED <<body, derived, script, probe, files, timestamp, renderStarted, response>>
    /\ UNCHANGED <<codecVars, viewerVars, formatVars, normVars, laterVars>>

\* fs.unlink(scadFile)
UnlinkScad ==
    /\ pc = "read"
    /\ files' = files \ {ScadFile(timestamp)}
    /\ pc' = "unlinked"
    /\ UNCHANGED <<body, derived, script, probe, timestamp, renderStarted, response>>
    /\ UNCHANGED <<codecVars, viewerVars, formatVars, normVars, laterVars>>

\* res.send(content)
SendStl ==
    /\ pc = "unlinked"
    /\ response' = [status |-> 200, error |-> NoError]
    /\ pc' = "responded"
    /\ UNCHANGED <<body, derived, script, probe, files, timestamp, renderStarted>>
    /\ UNCHANGED <<codecVars, viewerVars, formatVars, normVars, laterVars>>

\* catch in generateSTLFile rethrows, catch in the route answers 400
SendError ==
    /\ pc = "failed"
    /\ response' = GenerateFailed
    /\ pc' = "responded"
    /\ UNCHANGED <<body, derived, script, probe, files, timestamp, renderStarted>>
    /\ UNCHANGED <<codecVars, viewerVars, formatVars, normVars, laterVars>>

ServerInit ==
    /\ pc = "idle"
    /\ body = None
    /\ derived = None
    /\ script = None
    /\ probe = {}
    /\ files = {}
    /\ timestamp = 0
    /\ renderStarted = FALSE
    /\ response = None

CodecIdle ==
    /\ buf = None
    /\ dpc = "idle"
    /\ reader = 0
    /\ mesh = None
    /\ derr = NoError
    /\ maxRead = 0

ViewerIdle ==
    /\ stl = None
    /\ vpc = "idle"
    /\ geometry = None
    /\ verr = <<>>

FormatIdle ==
    /\ fin = None
    /\ fout = None

NormIdle ==
    /\ source = None
    /\ shape = None
    /\ box = None
    /\ npc = "idle"

\* two requests in flight; invocation i is called with parameter set i
Invocations == {1, 2}

ConcIdle ==
    /\ now = 0
    /\ inv = [i \in Invocations |-> [pc |-> "idle", ts |-> 0, result |-> 0]]
    /\ disk = {}

MaxEffects == 2

\* the runs of the component's effect: one per mount or change of url / props
Effects == 1..MaxEffects

\* useRef(null), useState(true); nothing is mounted
EffectIdle ==
    /\ mounted = FALSE
    /\ effect = [e \in Effects |-> [status |-> "none", fetch |-> "none"]]
    /\ scenes = [e \in Effects |-> {}]
    /\ sceneRef = 0
    /\ modelRef = 0
    /\ animationFrameRef = 0
    /\ scheduled = {}
    /\ loopCount = 0
    /\ ctx = "ok"
    /\ loading = TRUE

\* useState(null), useState(false), an idle mutation; no object URL exists
FormIdle ==
    /\ previewUrl = 0
    /\ showPreview = FALSE
    /\ isPending = FALSE
    /\ revoked = {}
    /\ urlCount = 0
    /\ clicks = 0
    /\ stlError = FALSE

MaxRequests == 2

\* preview and download requests being served at the same time
Requests == 1..MaxRequests

NoRequest == [kind |-> "none", file |-> "none", pc |-> "idle", late |-> FALSE,
              err |-> FALSE, status |-> 0]

\* the temp directory holds no STL file and no request is being served
RouteIdle ==
    /\ tempDir = {}
    /\ generated = {}
    /\ req = [r \in Requests |-> NoRequest]

LaterIdle == ConcIdle /\ EffectIdle /\ FormIdle /\ RouteIdle

Init ==
    /\ ServerInit /\ CodecIdle /\ ViewerIdle /\ FormatIdle /\ NormIdle
    /\ LaterIdle

Next ==
    \/ \E b \in Bodies : PostGenerate(b)
    \/ ParseBody
    \/ \E ts \in Timestamps : WriteScad(ts)
    \/ pc = "written" /\ \E y \in ProbeYs(body), z \in ProbeZs, glyph \in BOOLEAN : Probe(y, z, glyph)
    \/ \E ok \in BOOLEAN : RunOpenSCAD(ok)
    \/ ReadStl
    \/ UnlinkScad
    \/ SendStl
    \/ SendError

Spec == Init /\ [][Next]_vars

----------------------------------------------------------------------------
(* Geometry claims *)

\* inches (counted in 1/160 inch) times 25.4, in 1/800 mm
InchesToMm(x) == (x * 254 * 800) \div (160 * 10)

\* distance between the inner face of the edge stop and the nearest cutout side
Gap ==
    IF body.edge_position = "left"
    THEN derived.cutout_y_position - edge_thickness
    ELSE derived.edge_x_offset - (derived.cutout_y_position + derived.cutout_width)

\* the bodies the data model calls valid: bushing at least as large as the bit
NonNegativeOffset == body.bushing_OD_in >= body.bit_diameter_in

\* C1: derivation succeeds whenever bushing >= bit, and when bushing < bit it
\* fails with InvalidOffset, emits no script and starts no render.
C1_InvalidOffsetRejected ==
    (body # None /\ mortiseTemplateSchema(body)) =>
        /\ (body.bushing_OD_in < body.bit_diameter_in) =>
              /\ script = None
              /\ ~renderStarted
              /\ (pc = "responded" => response.status = 400)
        /\ (body.bushing_OD_in >= body.bit_diameter_in /\ pc \notin {"received", "accepted"})
              => script # None

\* C2 (stated for the bodies with bushing >= bit): for every accepted body the
\* cutout rectangle lies strictly inside the plate rectangle and does not
\* intersect the edge-stop strip.
C2_CutoutInsidePlate ==
    (derived # None /\ NonNegativeOffset) =>
        /\ 0 < derived.cutout_x_position
        /\ derived.cutout_x_position + derived.cutout_length < derived.template_length
        /\ 0 < derived.cutout_y_position
        /\ derived.cutout_y_position + derived.cutout_width < derived.template_width
        /\ IF body.edge_position = "left"
           THEN derived.cutout_y_position > edge_thickness
           ELSE derived.cutout_y_position + derived.cutout_width
                    < derived.template_width - edge_thickness

\* C3 (stated for the bodies with bushing >= bit): the cutout's y origin is, for
\* Right, plate_width - edge_distance - cutout_width - edge_stop_thickness, and in both positions the gap between the
\* inner face of the edge stop and the cutout is exactly the user's edge_distance.
C3_GapIsEdgeDistance ==
    (derived # None /\ NonNegativeOffset) =>
        /\ Gap = InchesToMm(body.edge_distance_in)
        /\ body.edge_position = "right" =>
              derived.cutout_y_position =
                  derived.template_width - InchesToMm(body.edge_distance_in)
                      - derived.cutout_width - edge_thickness

\* C4: offset = (bushing - bit) / 2, cutout = mortise + 2 * offset in both
\* directions, corner radius = bushing / 2, plate length = cutout length +
\* 2 * extension length, all in millimetres (inches x 25.4).
C4_DerivedValues ==
    derived # None =>
        /\ 2 * derived.offset
              = InchesToMm(body.bushing_OD_in) - InchesToMm(body.bit_diameter_in)
        /\ derived.cutout_length
              = InchesToMm(body.mortise_length_in) + InchesToMm(body.bushing_OD_in)
                  - InchesToMm(body.bit_diameter_in)
        /\ derived.cutout_width
              = InchesToMm(body.mortise_width_in) + InchesToMm(body.bushing_OD_in)
                  - InchesToMm(body.bit_diameter_in)
        /\ 2 * derived.corner_radius = InchesToMm(body.bushing_OD_in)
        /\ derived.template_length
              = InchesToMm(body.mortise_length_in) + InchesToMm(body.bushing_OD_in)
                  - InchesToMm(body.bit_diameter_in)
                  + 2 * InchesToMm(body.extension_length_in)

\* the scenario of the documentation: bushing 5/16, bit 1/4, mortise 1.75 x 0.375
\* gives offset 1/32 and a cutout of 1.8125 x 0.4375 inches
C4_Witness ==
    /\ derived # None
    /\ body.bushing_OD_in = Inch(5, 16)
    /\ body.bit_diameter_in = Inch(1, 4)
    /\ body.mortise_length_in = Inch(7, 4)
    /\ body.mortise_width_in = Inch(3, 8)
    /\ derived.offset = InchesToMm(Inch(1, 32))
    /\ derived.cutout_length = InchesToMm(Inch(29, 16))
    /\ derived.cutout_width = InchesToMm(Inch(7, 16))

\* C5 (stated for the bodies with bushing >= bit): plate width = cutout_width + edge_stop_thickness + extension_width, with
\* the edge stop's own thickness (3/8 inch).
C5_PlateWidth ==
    (derived # None /\ NonNegativeOffset) =>
        derived.template_width
            = derived.cutout_width + InchesToMm(Inch(3, 8))
                + InchesToMm(body.extension_width_in)

\* C6: for every valid body, cutout_length <= plate_length and
\* cutout_width + edge_stop_thickness <= plate_width.
C6_Containment ==
    derived # None =>
        /\ derived.cutout_length <= derived.template_length
        /\ derived.cutout_width + InchesToMm(Inch(3, 8)) <= derived.template_width

\* the smallest extensions the schema lets through
C6_Witness ==
    /\ derived # None
    /\ body.extension_length_in = Inch(1, 10)
    /\ body.extension_width_in = Inch(1, 10)
    /\ derived.cutout_width > 0

\* the renderer's maximum build dimension, 256 mm
RendererMaxDim == Milli(256, 1)

\* C7 (stated for the bodies with bushing >= bit): the renderer is never handed a plate longer or wider than 256.
C7_FootprintChecked ==
    (renderStarted /\ NonNegativeOffset) =>
        /\ derived.template_length <= RendererMaxDim
        /\ derived.template_width <= RendererMaxDim

\* C8 (stated for the bodies with bushing >= bit): the emitted solid is the set (plate U edge_stop) minus
\* (cutout U engraved text).
C8_SolidIsUnionMinusCuts ==
    \A pr \in probe : NonNegativeOffset =>
        pr.solid = ((pr.m["plate"] \/ pr.m["edge_stop"])
                      /\ ~(pr.m["cutout"] \/ pr.m["template_text"]))

----------------------------------------------------------------------------
(* CustomSTLLoader.parse: the buffer is an ArrayBuffer of byteLength bytes  *)
(* whose little-endian u32 at offset 80 is nFaces (when it has 84 bytes);   *)
(* solid tells whether its text contains the token "solid".                 *)

MaxTriangles == 2

MaxFaces == 5000000

HeaderSize == 84

FaceSize == 50

\* triangle counts the 4 bytes at offset 80 can hold, as far as the decoder
\* tells them apart
FaceCounts == (0..(MaxTriangles + 1)) \cup {MaxFaces, MaxFaces + 1}

ByteLengths ==
    {0, HeaderSize - 1}
    \cup {HeaderSize + FaceSize * k + e : k \in 0..MaxTriangles, e \in {0, 1, FaceSize - 1}}
    \cup {HeaderSize + FaceSize * (MaxFaces + 1)}

\* the read loop runs nFaces times, so buffers holding more than MaxTriangles
\* complete declared triangles are left out unless the count is refused
Buffers ==
    {b \in [byteLength : ByteLengths, nFaces : FaceCounts, solid : BOOLEAN] :
        \/ b.nFaces <= MaxTriangles
        \/ b.nFaces > MaxFaces
        \/ b.byteLength < HeaderSize + b.nFaces * FaceSize}

TooSmall(b) == b.byteLength < HeaderSize

NeverTruncated(b, triangles) == FALSE

\* buffer.byteLength < expectedSize, expectedSize = 84 + triangles * 50
Truncated(b, triangles) == b.byteLength < HeaderSize + (triangles * FaceSize)

\* dv.getUint32 / dv.getFloat32 at byte offset o: a RangeError unless the 4 bytes
\* lie inside the buffer
CanRead(b, o) == o >= 0 /\ o + 4 <= b.byteLength

\* the 12 getFloat32 calls of one triangle start at reader, reader + 4, ...
FloatOffsets(o) == {o + 4 * j : j \in 0..11}

\* a buffer is handed to parse()
LoadBuffer(b) ==
    /\ dpc = "idle"
    /\ buf' = b
    /\ dpc' = "start"
    /\ UNCHANGED <<reader, mesh, derr, maxRead>>
    /\ UNCHANGED <<serverVars, viewerVars, formatVars, normVars, laterVars>>

\* if (buffer.byteLength < 84) throw; reader.skip(80)
CheckHeader ==
    /\ dpc = "start"
    /\ IF TooSmall(buf)
       THEN dpc' = "failed" /\ derr' = "TooSmall" /\ reader' = reader
       ELSE dpc' = "header" /\ derr' = derr /\ reader' = reader + 80
    /\ UNCHANGED <<buf, mesh, maxRead>>
    /\ UNCHANGED <<serverVars, viewerVars, formatVars, normVars, laterVars>>

\* triangles = reader.getUint32() and the three checks that follow it
ReadCount ==
    /\ dpc = "header"
    /\ reader' = reader + 4
    /\ maxRead' = Max(maxRead, reader + 4)
    /\ IF Truncated(buf, buf.nFaces)
       THEN dpc' = "failed" /\ derr' = "Truncated"
       ELSE IF buf.nFaces = 0
       THEN dpc' = "failed" /\ derr' = "NoFaces"
       ELSE IF buf.nFaces > MaxFaces
       THEN dpc' = "failed" /\ derr' = "TooManyFaces"
       ELSE dpc' = "loop" /\ derr' = derr
    /\ mesh' = IF dpc' = "loop" THEN [positions |-> <<>>, normals |-> <<>>] ELSE mesh
    /\ UNCHANGED buf
    /\ UNCHANGED <<serverVars, viewerVars, formatVars, normVars, laterVars>>

\* a reader whose vertex reads start one float late
VertexAtLate(o) == <<o + 4, o + 8, o + 12>>

\* the floats are named by the byte offset they were read at: the three
\* getFloat32 calls that read one vertex, starting at offset o
VertexAt(o) == <<o, o + 4, o + 8>>

\* normals[normalIndex++] = nx, ny, nz inside for (let j = 0; j < 3; j++)
NormalPerVertex(o) == VertexAt(o) \o VertexAt(o) \o VertexAt(o)

\* the loop counter i: nine positions are stored per pass
FacesRead == Len(mesh.positions) \div 9

\* one pass of for (let i = 0; i < triangles; i++): normal, three vertices,
\* reader.skip(2)
ReadTriangle ==
    /\ dpc = "loop"
    /\ FacesRead < buf.nFaces
    /\ IF \A o \in FloatOffsets(reader) : CanRead(buf, o)
       THEN /\ mesh' = [positions |-> mesh.positions \o VertexAt(reader + 12)
                                        \o VertexAt(reader + 24) \o VertexAt(reader + 36),
                        normals |-> mesh.normals \o NormalPerVertex(reader)]
            /\ reader' = reader + 48 + 2
            /\ maxRead' = Max(maxRead, reader + 48)
            /\ dpc' = "loop"
            /\ derr' = derr
       ELSE /\ mesh' = None
            /\ reader' = reader
            /\ maxRead' = maxRead
            /\ dpc' = "failed"
            /\ derr' = "Corrupted"
    /\ UNCHANGED buf
    /\ UNCHANGED <<serverVars, viewerVars, formatVars, normVars, laterVars>>

\* setAttribute('position'), setAttribute('normal'), the position.count check,
\* return geometry
ReturnGeometry ==
    /\ dpc = "loop"
    /\ FacesRead = buf.nFaces
    /\ IF Len(mesh.positions) \div 3 = 0
       THEN dpc' = "failed" /\ derr' = "NoVertices" /\ mesh' = None
       ELSE dpc' = "done" /\ derr' = derr /\ mesh' = mesh
    /\ UNCHANGED <<buf, reader, maxRead>>
    /\ UNCHANGED <<serverVars, viewerVars, formatVars, normVars, laterVars>>

NextCodec ==
    \/ \E b \in Buffers : LoadBuffer(b)
    \/ CheckHeader
    \/ ReadCount
    \/ ReadTriangle
    \/ ReturnGeometry

SpecCodec == Init /\ [][NextCodec]_vars

----------------------------------------------------------------------------
(* The viewer's own parser, parseSTL (src/unnamed/part_009).  A file is an   *)
(* ArrayBuffer of byteLength bytes; nFaces is the little-endian u32 at       *)
(* offset 80; header tells whether its first 6 bytes contain "solid"; solid   *)
(* and facetToken tell whether its text contains "solid" and "facet"; facets  *)
(* lists, for every block facetRegex matches, how many vertex lines          *)
(* vertexRegex matches inside it.                                            *)

MaxFacets == 2

\* vertex lines in one matched facet block: none, a cut-off loop, a triangle,
\* a quadrilateral
VertexCounts == {0, 2, 3, 4}

RECURSIVE SeqsUpTo(_, _)
SeqsUpTo(S, n) ==
    IF n = 0 THEN {<<>>}
    ELSE LET shorter == SeqsUpTo(S, n - 1)
         IN shorter \cup {Append(q, x) : q \in {r \in shorter : Len(r) = n - 1}, x \in S}

RECURSIVE SumSeq(_)
SumSeq(q) == IF q = <<>> THEN 0 ELSE Head(q) + SumSeq(Tail(q))

\* the fewest bytes a text with these tokens and blocks has:
\* "solid", "facet normal 0 0 0 endloop endfacet " and "vertex 0 0 0 "
MinTextLength(f) ==
    (IF f.solid THEN 5 ELSE 0)
    + (IF f.facetToken /\ f.facets = <<>> THEN 5 ELSE 0)
    + 36 * Len(f.facets) + 13 * SumSeq(f.facets)

ViewerByteLengths ==
    {0, HeaderSize - 1}
    \cup {HeaderSize + FaceSize * k + e : k \in 0..MaxTriangles, e \in {0, 3, 4, FaceSize - 3}}

StlFiles ==
    {f \in [byteLength : ViewerByteLengths,
            nFaces : (0..(MaxTriangles + 1)) \cup {MaxFaces + 1},
            header : BOOLEAN, solid : BOOLEAN, facetToken : BOOLEAN,
            facets : SeqsUpTo(VertexCounts, MaxFacets)] :
        /\ f.header => f.solid
        /\ f.facets # <<>> => f.facetToken
        /\ f.byteLength >= MinTextLength(f)
        /\ f.byteLength < HeaderSize => f.nFaces = 0
        /\ \/ f.nFaces <= MaxTriangles
           \/ f.nFaces > MaxFaces
           \/ f.byteLength < HeaderSize + f.nFaces * FaceSize}

Abs(x) == IF x < 0 THEN -x ELSE x

\* the immediately-invoked function that sets isBinary in parseSTL
IsBinaryStl(f) ==
    IF f.byteLength < HeaderSize THEN FALSE
    ELSE IF f.nFaces > MaxFaces THEN FALSE
    ELSE IF Abs((HeaderSize + f.nFaces * FaceSize) - f.byteLength) < 4 THEN TRUE
    ELSE ~f.header

\* new THREE.BufferGeometry(): no attributes
EmptyGeometry == [positions |-> <<>>, normals |-> <<>>]

\* fetch(url) ... .then(buffer => parseSTL(buffer))
ViewerLoad(f) ==
    /\ vpc = "idle"
    /\ stl' = f
    /\ vpc' = "isBinary"
    /\ UNCHANGED <<geometry, verr>>
    /\ UNCHANGED <<serverVars, codecVars, formatVars, normVars, laterVars>>

\* const isBinary = (() => { ... })(); if (isBinary) ... else ...
DetectFormat ==
    /\ vpc = "isBinary"
    /\ vpc' = IF IsBinaryStl(stl) THEN "binary" ELSE "ascii"
    /\ UNCHANGED <<stl, geometry, verr>>
    /\ UNCHANGED <<serverVars, codecVars, formatVars, normVars, laterVars>>

\* parseBinarySTL up to the loop: its three throws are caught by parseSTL,
\* which falls back to parseAsciiSTL
ParseBinaryHeader ==
    /\ vpc = "binary"
    /\ IF stl.byteLength < HeaderSize
       THEN vpc' = "ascii" /\ verr' = Append(verr, "TooSmall") /\ geometry' = geometry
       ELSE IF stl.nFaces > MaxFaces
       THEN vpc' = "ascii" /\ verr' = Append(verr, "InvalidFaces") /\ geometry' = geometry
       ELSE IF stl.byteLength < HeaderSize + (stl.nFaces * FaceSize)
       THEN vpc' = "ascii" /\ verr' = Append(verr, "Truncated") /\ geometry' = geometry
       ELSE vpc' = "faces" /\ verr' = verr /\ geometry' = EmptyGeometry
    /\ UNCHANGED stl
    /\ UNCHANGED <<serverVars, codecVars, formatVars, normVars, laterVars>>

\* the loop counter i of parseBinarySTL and its offset
ViewerFacesRead == Len(geometry.positions) \div 9

ViewerOffset == HeaderSize + FaceSize * ViewerFacesRead

\* one pass of for (let i = 0; i < faces; i++) in parseBinarySTL: break when
\* the face does not fit, else push nine positions and nine normals
ParseBinaryFace ==
    /\ vpc = "faces"
    /\ ViewerFacesRead < stl.nFaces
    /\ IF ViewerOffset + FaceSize > stl.byteLength
       THEN vpc' = "returned" /\ geometry' = geometry
       ELSE /\ vpc' = "faces"
            /\ geometry' =
                 [positions |-> geometry.positions \o VertexAt(ViewerOffset + 12)
                                  \o VertexAt(ViewerOffset + 24) \o VertexAt(ViewerOffset + 36),
                  normals |-> geometry.normals \o NormalPerVertex(ViewerOffset)]
    /\ UNCHANGED <<stl, verr>>
    /\ UNCHANGED <<serverVars, codecVars, formatVars, normVars, laterVars>>

\* the loop ends; setAttribute twice; return geometry
ParseBinaryReturn ==
    /\ vpc = "faces"
    /\ ViewerFacesRead = stl.nFaces
    /\ vpc' = "returned"
    /\ UNCHANGED <<stl, geometry, verr>>
    /\ UNCHANGED <<serverVars, codecVars, formatVars, normVars, laterVars>>

\* the floats of an ASCII file are named by facet block, vertex line and axis
AsciiVertex(i, j) == <<[facet |-> i, vertex |-> j, axis |-> 1],
                       [facet |-> i, vertex |-> j, axis |-> 2],
                       [facet |-> i, vertex |-> j, axis |-> 3]>>

AsciiNormal(i) == <<[facet |-> i, vertex |-> 0, axis |-> 1],
                    [facet |-> i, vertex |-> 0, axis |-> 2],
                    [facet |-> i, vertex |-> 0, axis |-> 3]>>

RECURSIVE FacetPositions(_, _)
\* the inner while loop: positions.push(x, y, z) for vertex lines 1..n of block i
FacetPositions(i, n) ==
    IF n = 0 THEN <<>> ELSE FacetPositions(i, n - 1) \o AsciiVertex(i, n)

RECURSIVE FacetNormals(_, _)
\* the inner while loop: normals.push(nx, ny, nz) once for every vertex line
FacetNormals(i, n) ==
    IF n = 0 THEN <<>> ELSE FacetNormals(i, n - 1) \o AsciiNormal(i)

RECURSIVE AsciiPositions(_, _)
\* the outer while loop over the blocks facetRegex matches, blocks 1..k
AsciiPositions(facets, k) ==
    IF k = 0 THEN <<>>
    ELSE AsciiPositions(facets, k - 1) \o FacetPositions(k, facets[k])

RECURSIVE AsciiNormals(_, _)
AsciiNormals(facets, k) ==
    IF k = 0 THEN <<>>
    ELSE AsciiNormals(facets, k - 1) \o FacetNormals(k, facets[k])

\* parseAsciiSTL, and the catch of parseSTL around it: "Return empty geometry
\* as last resort"
ParseAscii ==
    /\ vpc = "ascii"
    /\ IF ~stl.solid \/ ~stl.facetToken
       THEN geometry' = EmptyGeometry /\ verr' = Append(verr, "NotAscii")
       ELSE IF Len(AsciiPositions(stl.facets, Len(stl.facets))) = 0
       THEN geometry' = EmptyGeometry /\ verr' = Append(verr, "NoFacets")
       ELSE /\ geometry' = [positions |-> AsciiPositions(stl.facets, Len(stl.facets)),
                            normals |-> AsciiNormals(stl.facets, Len(stl.facets))]
            /\ verr' = verr
    /\ vpc' = "returned"
    /\ UNCHANGED stl
    /\ UNCHANGED <<serverVars, codecVars, formatVars, normVars, laterVars>>

NextViewer ==
    \/ vpc = "idle" /\ \E f \in StlFiles : ViewerLoad(f)
    \/ DetectFormat
    \/ ParseBinaryHeader
    \/ ParseBinaryFace
    \/ ParseBinaryReturn
    \/ ParseAscii

SpecViewer == Init /\ [][NextViewer]_vars

----------------------------------------------------------------------------
(* Decoder claims *)

\* the triangles were read from the binary layout, or the binary count was read
\* and found to be zero
DecodedAsBinary == dpc = "done" \/ (dpc = "failed" /\ derr = "NoFaces")

\* C9: a buffer is decoded as binary if and only if its length is 84 + 50 * n
\* with n <= 5,000,000; every other buffer is decoded as ASCII.
C9_BinaryIffExactSize ==
    dpc \in {"done", "failed"} =>
        (DecodedAsBinary <=>
            /\ buf.byteLength >= HeaderSize
            /\ buf.byteLength = HeaderSize + FaceSize * buf.nFaces
            /\ buf.nFaces <= MaxFaces)

\* C10: binary decode of a buffer shorter than the 84 + 50 * n bytes its
\* declared triangle count implies ends in the Truncated error, reads nothing
\* past the end of the buffer and returns no mesh.
C10_TruncatedRejected ==
    (dpc \in {"loop", "done", "failed"} /\ ~TooSmall(buf)
        /\ buf.byteLength < HeaderSize + FaceSize * buf.nFaces) =>
        /\ dpc = "failed"
        /\ derr = "Truncated"
        /\ mesh = None
        /\ maxRead <= buf.byteLength

\* a buffer that holds one whole triangle of the two it declares, plus a partial one
C10_Witness ==
    /\ dpc = "failed"
    /\ derr = "Truncated"
    /\ buf.nFaces = 2
    /\ buf.byteLength = HeaderSize + FaceSize + (FaceSize - 1)
    /\ maxRead = HeaderSize

----------------------------------------------------------------------------
(* Claims about the viewer's parser *)

\* an empty byte buffer, a binary buffer whose triangle count is 0, or a text
\* with the "solid" token and no vertex line in any facet block
EmptyInput(f) ==
    \/ f.byteLength = 0
    \/ f.byteLength = HeaderSize /\ f.nFaces = 0
    \/ f.solid /\ ~IsBinaryStl(f) /\ SumSeq(f.facets) = 0

\* C11: decoding an empty byte buffer, a binary buffer whose triangle count is
\* 0, or an ASCII file with no facets ends in the EmptyMesh error: the caller
\* is never handed a geometry, empty or not.
C11_EmptyMeshError ==
    (vpc = "returned" /\ EmptyInput(stl)) => geometry = None

\* number of vertices of a geometry: three floats each
VertexCount(g) == Len(g.positions) \div 3

\* C12: every mesh decode returns, on the binary and on the ASCII path, has a
\* vertex count that is a multiple of 3 and one normal per vertex, the three
\* vertices of a facet carrying the same normal.
C12_FlatNormalsPerFacet ==
    (vpc = "returned" /\ geometry # None /\ geometry # EmptyGeometry) =>
        /\ VertexCount(geometry) % 3 = 0
        /\ Len(geometry.normals) = Len(geometry.positions)
        /\ \A v \in 0..(VertexCount(geometry) - 1) : \A k \in 1..3 :
              geometry.normals[3 * v + k] = geometry.normals[3 * (v - (v % 3)) + k]

\* the parser parseSTL tried last threw
DecodeFailed == verr # <<>> /\ verr[Len(verr)] \in {"NotAscii", "NoFacets"}

\* the binary parser found the buffer shorter than its triangle count implies
HitTruncated == verr # <<>> /\ verr[1] = "Truncated"

\* C14 (stated for the decodes that hit a truncated triangle): a decode that
\* fails never produces a geometry: the caller receives an error, never the
\* triangles read so far and never an empty placeholder geometry.
C14_FailedDecodeNoGeometry ==
    (vpc = "returned" /\ HitTruncated /\ DecodeFailed) => geometry = None

----------------------------------------------------------------------------
(* Round trip.  The repository holds no STL writer (the files come from the  *)
(* external renderer); Encode writes a mesh in the two layouts of the        *)
(* format, and the bytes are handed to CustomSTLLoader.parse.  A mesh is a   *)
(* sequence of triangles [normal, vertices]; coordinates are integers, which *)
(* are exact in f32.                                                         *)

Tri(a) ==
    [normal |-> <<a, a + 1, a + 2>>,
     vertices |-> <<<<a + 3, a + 4, a + 5>>, <<a + 6, a + 7, a + 8>>,
                    <<a + 9, a + 10, a + 11>>>>]

SampleTriangles == {Tri(0), Tri(20), Tri(-40)}

Meshes == SeqsUpTo(SampleTriangles, MaxTriangles)

Forms == {"Binary", "Ascii"}

\* what four bytes that hold no float of the file decode to
Garbage == -999

\* binary layout: triangle i (from 0) starts at byte 84 + 50 * i; normal, then
\* three vertices, 4 bytes per float, then 2 attribute bytes
BinaryFloats(m) ==
    [o \in {HeaderSize + FaceSize * i + 4 * j : i \in 0..(Len(m) - 1), j \in 0..11} |->
        LET i == (o - HeaderSize) \div FaceSize
            j == ((o - HeaderSize) % FaceSize) \div 4
        IN IF j < 3 THEN m[i + 1].normal[j + 1]
           ELSE m[i + 1].vertices[((j - 3) \div 3) + 1][((j - 3) % 3) + 1]]

\* characters one number takes in the text form ("1.000000e+00")
NumberWidth == 12

\* "facet normal nx ny nz", "outer loop", three "vertex x y z", "endloop",
\* "endfacet", one line each
AsciiFacetLength == (16 + 3 * NumberWidth) + 11 + 3 * (10 + 3 * NumberWidth) + 8 + 9

\* "solid mesh" and "endsolid mesh", one line each, around the facet blocks
AsciiLength(m) == 11 + AsciiFacetLength * Len(m) + 14

\* the u32 that four bytes of text make: every byte is at least 0x09, so the
\* count is at least 0x09090909 = 151,587,081, far above MaxFaces and with an
\* expected size far above any text this short; MaxFaces + 1 stands for it
AsciiCountAtOffset80 == MaxFaces + 1

Encode(m, form) ==
    IF form = "Binary"
    THEN [byteLength |-> HeaderSize + FaceSize * Len(m), nFaces |-> Len(m),
          solid |-> FALSE, floats |-> BinaryFloats(m), form |-> form, source |-> m]
    ELSE [byteLength |-> AsciiLength(m),
          nFaces |-> IF AsciiLength(m) < HeaderSize THEN 0 ELSE AsciiCountAtOffset80,
          solid |-> TRUE, floats |-> <<>>, form |-> form, source |-> m]

\* parse(encode(m, form))
LoadEncoded(m, form) ==
    /\ dpc = "idle"
    /\ buf' = Encode(m, form)
    /\ dpc' = "start"
    /\ UNCHANGED <<reader, mesh, derr, maxRead>>
    /\ UNCHANGED <<serverVars, viewerVars, formatVars, normVars, laterVars>>

NextRoundTrip ==
    \/ \E m \in Meshes, form \in Forms : LoadEncoded(m, form)
    \/ CheckHeader
    \/ ReadCount
    \/ ReadTriangle
    \/ ReturnGeometry

SpecRoundTrip == Init /\ [][NextRoundTrip]_vars

\* dv.getFloat32(o, true) on the encoded bytes
FloatAt(b, o) == IF o \in DOMAIN b.floats THEN b.floats[o] ELSE Garbage

\* the Float32Array an attribute of the returned geometry holds
Values(b, offsets) == [i \in 1..Len(offsets) |-> FloatAt(b, offsets[i])]

\* the geometry read back as triangles: 9 positions per triangle, its normal
\* the one stored with its first vertex
DecodedMesh(b, g) ==
    [i \in 1..(Len(g.positions) \div 9) |->
        [normal |-> SubSeq(Values(b, g.normals), 9 * (i - 1) + 1, 9 * (i - 1) + 3),
         vertices |-> [j \in 1..3 |->
             SubSeq(Values(b, g.positions), 9 * (i - 1) + 3 * (j - 1) + 1,
                    9 * (i - 1) + 3 * j)]]]

RECURSIVE MeshPositions(_)
MeshPositions(m) ==
    IF m = <<>> THEN <<>>
    ELSE Head(m).vertices[1] \o Head(m).vertices[2] \o Head(m).vertices[3]
             \o MeshPositions(Tail(m))

\* C13 (stated for the meshes with at least one triangle): decode(encode(m,
\* Binary)) equals m triangle for triangle, normals and vertices in order, and
\* decode(encode(m, Ascii)) yields the same vertex positions.
C13_RoundTrip ==
    (buf # None /\ dpc \in {"done", "failed"} /\ buf.source # <<>>) =>
        /\ dpc = "done"
        /\ Values(buf, mesh.positions) = MeshPositions(buf.source)
        /\ buf.form = "Binary" => DecodedMesh(buf, mesh) = buf.source

----------------------------------------------------------------------------
(* Measurement labels: DatabaseStorage.decimalToFraction and the labels of   *)
(* template_text.  A decimal is an integer counting 1/160 inch.  Request     *)
(* values on this grid are exact doubles; a computed value (offset_inches)   *)
(* carries a rounding error whose sign, nudge, decides the comparisons that   *)
(* are ties in exact arithmetic.  A text is [kind, whole, num, den]:         *)
(* "integer" prints whole, "fraction" num/den, "mixed" whole-num/den and     *)
(* "fixed" the decimal num/den with as many digits as den has zeros.         *)

Integer(n) == [kind |-> "integer", whole |-> n, num |-> 0, den |-> 1]

Fraction(n, d) == [kind |-> "fraction", whole |-> 0, num |-> n, den |-> d]

Mixed(w, n, d) == [kind |-> "mixed", whole |-> w, num |-> n, den |-> d]

Fixed(n, d) == [kind |-> "fixed", whole |-> 0, num |-> n, den |-> d]

maxDenominator == 16

\* Math.round(decimal * d): the nearest integer, a half rounded up; when the
\* product is a half in exact arithmetic the rounding error decides
MathRound(x, d, nudge) ==
    LET up == (2 * x * d + 160) \div 320
    IN IF (2 * x * d + 160) % 320 = 0 /\ nudge < 0 THEN up - 1 ELSE up

\* Math.abs(decimal - n / d), times 160 * d
ErrorTimes(x, n, d) == Abs(x * d - 160 * n)

\* the direction the rounding error moves Math.abs(decimal - n / d)
Drift(x, n, d, nudge) ==
    IF x * d > 160 * n THEN nudge ELSE IF x * d < 160 * n THEN -nudge ELSE Abs(nudge)

\* error < bestError, error that of n / d and bestError that of bn / bd
ErrorLess(x, nudge, n, d, bn, bd) ==
    LET error == ErrorTimes(x, n, d) * bd
        bestError == ErrorTimes(x, bn, bd) * d
    IN \/ error < bestError
       \/ error = bestError /\ Drift(x, n, d, nudge) < Drift(x, bn, bd, nudge)

RECURSIVE BestFraction(_, _, _, _)
\* for (let d = 1; d <= maxDenominator; d++) { ... }
BestFraction(x, nudge, d, best) ==
    IF d > maxDenominator THEN best
    ELSE LET n == MathRound(x, d, nudge)
         IN BestFraction(x, nudge, d + 1,
                IF ErrorLess(x, nudge, n, d, best.numerator, best.denominator)
                THEN [numerator |-> n, denominator |-> d]
                ELSE best)

\* the improper fraction numerator/denominator, with no whole part split off
ImproperFraction(x, nudge) ==
    LET best == BestFraction(x, nudge, 1, [numerator |-> 1, denominator |-> 1])
    IN IF best.denominator = 1 THEN Integer(best.numerator)
       ELSE Fraction(best.numerator, best.denominator)

decimalToFraction(x, nudge) ==
    LET best == BestFraction(x, nudge, 1, [numerator |-> 1, denominator |-> 1])
        wholePart == best.numerator \div best.denominator
        remainingNumerator == best.numerator % best.denominator
    IN IF best.denominator = 1 THEN Integer(best.numerator)
       ELSE IF wholePart = 0 THEN Fraction(remainingNumerator, best.denominator)
       ELSE Mixed(wholePart, remainingNumerator, best.denominator)

\* (num / den).toFixed(1): the tenths nearest to num / den; a half in exact
\* arithmetic goes the way the rounding error of the double points
toFixed1(num, den) ==
    LET lo == (10 * num) \div den
        twice == (20 * num) \div den
    IN IF (20 * num) % den = 0 /\ twice % 2 = 1
       THEN {Fixed(lo, 10), Fixed(lo + 1, 10)}
       ELSE IF twice % 2 = 1 THEN {Fixed(lo + 1, 10)} ELSE {Fixed(lo, 10)}

MaxDecimal == 330

\* the decimals decimalToFraction is tried on: 0 to 2 1/16 inch in steps of
\* 1/160 inch
Decimals == 0..MaxDecimal

\* bodies whose labels are rendered; the measurements are those of the
\* documentation's scenario, with two bushings
LabelBodies ==
    [unit_system : UnitSystems,
     bushing_OD_in : {Inch(5, 16), Inch(1, 2)},
     bit_diameter_in : {Inch(1, 4)},
     mortise_length_in : {Inch(7, 4)},
     mortise_width_in : {Inch(3, 8)},
     edge_distance_in : {Inch(1, 4), Inch(1, 1)}]

Nudges == {-1, 0, 1}

\* offset_mm / scale_factor, in 1/160 inch
offset_inches(p) == (p.bushing_OD_in - p.bit_diameter_in) \div 2

\* const unitSuffix = params.unit_system === "metric" ? "mm" : "\""
\* ("in" stands for the inch mark)
unitSuffix(p) == IF p.unit_system = "metric" THEN "mm" ELSE "in"

\* displayValue(value): (value * scale_factor).toFixed(1) or decimalToFraction(value)
displayValue(p, value) ==
    IF p.unit_system = "metric"
    THEN toFixed1(value * 254, 160 * 10)
    ELSE {decimalToFraction(value, 0)}

\* displayOffset: offset_mm.toFixed(1) or decimalToFraction(offset_inches)
displayOffset(p, nudge) ==
    IF p.unit_system = "metric"
    THEN toFixed1((p.bushing_OD_in - p.bit_diameter_in) * 254, 2 * 160 * 10)
    ELSE {decimalToFraction(offset_inches(p), nudge)}

\* formatMeasurement(value, unitSystem) of the generator that has
\* formatValue: value.toFixed(1) or decimalToFraction(value)
formatMeasurement(p, value, nudge) ==
    IF p.unit_system = "metric"
    THEN toFixed1(value, 160)
    ELSE {decimalToFraction(value, nudge)}

Label(texts, suffix) == {[text |-> t, suffix |-> suffix] : t \in texts}

\* a call of decimalToFraction on a request value
CallDecimalToFraction(x) ==
    /\ fin = None
    /\ fin' = [fn |-> "decimalToFraction", decimal |-> x]
    /\ fout' = decimalToFraction(x, 0)
    /\ UNCHANGED <<serverVars, codecVars, viewerVars, normVars, laterVars>>

\* module template_text() of generateOpenSCADContent: the six label lines
TemplateText(p, nudge) ==
    /\ fin = None
    /\ fin' = [fn |-> "displayValue", params |-> p]
    /\ fout' \in [bushing : Label(displayValue(p, p.bushing_OD_in), unitSuffix(p)),
                  bit : Label(displayValue(p, p.bit_diameter_in), unitSuffix(p)),
                  length : Label(displayValue(p, p.mortise_length_in), unitSuffix(p)),
                  width : Label(displayValue(p, p.mortise_width_in), unitSuffix(p)),
                  edge_distance : Label(displayValue(p, p.edge_distance_in), unitSuffix(p)),
                  offset : Label(displayOffset(p, nudge), unitSuffix(p))]
    /\ UNCHANGED <<serverVars, codecVars, viewerVars, normVars, laterVars>>

\* "Add measurements text" of the generator that has formatValue: the six rows
MeasurementsText(p, nudge) ==
    /\ fin = None
    /\ fin' = [fn |-> "formatValue", params |-> p]
    /\ fout' \in [bushing : Label(formatMeasurement(p, p.bushing_OD_in, 0), unitSuffix(p)),
                  bit : Label(formatMeasurement(p, p.bit_diameter_in, 0), unitSuffix(p)),
                  length : Label(formatMeasurement(p, p.mortise_length_in, 0), unitSuffix(p)),
                  width : Label(formatMeasurement(p, p.mortise_width_in, 0), unitSuffix(p)),
                  edge_distance : Label(formatMeasurement(p, p.edge_distance_in, 0), unitSuffix(p)),
                  offset : Label(formatMeasurement(p, offset_inches(p), nudge), unitSuffix(p))]
    /\ UNCHANGED <<serverVars, codecVars, viewerVars, normVars, laterVars>>

NextFormat ==
    \/ \E x \in Decimals : CallDecimalToFraction(x)
    \/ \E p \in LabelBodies, nudge \in Nudges : TemplateText(p, nudge)
    \/ \E p \in LabelBodies, nudge \in Nudges : MeasurementsText(p, nudge)

SpecFormat == Init /\ [][NextFormat]_vars

----------------------------------------------------------------------------
(* Claims about the labels *)

RECURSIVE GCD(_, _)
GCD(a, b) == IF b = 0 THEN a ELSE GCD(b, a % b)

\* the number a text prints, times 160 * den
TextTimes(t) == (t.whole * t.den + t.num) * 160

Formatted(fn) == fin # None /\ fin.fn = fn

\* C15: a non-negative exact multiple of 1/16 is rendered exactly and in lowest
\* terms: a plain integer when whole, N/D when below 1, W-N/D otherwise
\* (0.3125 -> 5/16, 1.75 -> 1-3/4, 0.25 -> 1/4, 2.0 -> 2).
C15_SixteenthsExact ==
    (Formatted("decimalToFraction") /\ fin.decimal % Inch(1, 16) = 0) =>
        /\ TextTimes(fout) = fin.decimal * fout.den
        /\ GCD(fout.num, fout.den) = 1
        /\ fout.kind = IF fin.decimal % Inch(1, 1) = 0 THEN "integer"
                       ELSE IF fin.decimal < Inch(1, 1) THEN "fraction" ELSE "mixed"
        /\ fout.kind # "integer" => 0 < fout.num /\ fout.num < fout.den
        /\ fin.decimal = Inch(5, 16) => fout = Fraction(5, 16)
        /\ fin.decimal = Inch(1, 4) => fout = Fraction(1, 4)
        /\ fin.decimal = Inch(2, 1) => fout = Integer(2)

\* 1.75 is rendered 1-3/4
C15_Witness ==
    /\ Formatted("decimalToFraction")
    /\ fin.decimal = Inch(7, 4)
    /\ fout = Mixed(1, 3, 4)

\* the denominators of a woodworking rule
RuleDenominators == {1, 2, 4, 8, 16}

\* C16 (stated for the values the request schema admits, 0.1 inch and more):
\* the fraction rendered has a denominator in {1, 2, 4, 8, 16} and is the n/d
\* over those denominators that minimises |value - n/d|.
C16_BestOverRuleDenominators ==
    (Formatted("decimalToFraction") /\ fin.decimal >= Inch(1, 10)) =>
        /\ fout.den \in RuleDenominators
        /\ \A d \in RuleDenominators : \A n \in 0..(((fin.decimal * d) \div 160) + 1) :
              Abs(fin.decimal * fout.den - TextTimes(fout)) * d
                  <= ErrorTimes(fin.decimal, n, d) * fout.den

\* const tolerance = 1.0E-6: no n/d with d up to maxDenominator is within it
NoCandidateWithinTolerance(x) ==
    \A d \in 1..maxDenominator : ErrorTimes(x, MathRound(x, d, 0), d) * 6250 > d

\* C17: when no candidate fraction is within tolerance of the value (the
\* offset 1/32 inch of the default bushing and bit), the imperial offset label
\* is the value as a 3-decimal fixed string, not a fraction or integer that
\* differs from the value.
C17_FallbackToFixed ==
    (/\ Formatted("displayValue")
     /\ fin.params.unit_system = "imperial"
     /\ NoCandidateWithinTolerance(offset_inches(fin.params))) =>
        /\ fout.offset.text.kind = "fixed"
        /\ fout.offset.text.den = 1000

\* a label shows the measurement x (in 1/160 inch) in millimetres, x * 25.4,
\* with one decimal and the suffix mm
ShowsMillimetres(label, x) ==
    /\ label.suffix = "mm"
    /\ label.text.kind = "fixed"
    /\ label.text.den = 10
    /\ Abs(160 * label.text.num - 254 * x) <= 80

\* a label shows the inch fraction with the inch suffix
ShowsInches(label) ==
    /\ label.suffix = "in"
    /\ label.text.kind \in {"integer", "fraction", "mixed"}

Shows(p, label, x) ==
    IF p.unit_system = "metric" THEN ShowsMillimetres(label, x) ELSE ShowsInches(label)

\* C18: when unit_system is metric every engraved label (bushing, bit, length,
\* width, edge distance, offset) shows the measurement converted to
\* millimetres with one decimal and the suffix mm; when imperial it shows the
\* inch fraction with the inch suffix.
C18_LabelsInChosenUnit ==
    (Formatted("displayValue") \/ Formatted("formatValue")) =>
        LET p == fin.params
        IN /\ Shows(p, fout.bushing, p.bushing_OD_in)
           /\ Shows(p, fout.bit, p.bit_diameter_in)
           /\ Shows(p, fout.length, p.mortise_length_in)
           /\ Shows(p, fout.width, p.mortise_width_in)
           /\ Shows(p, fout.edge_distance, p.edge_distance_in)
           /\ Shows(p, fout.offset, offset_inches(p))

----------------------------------------------------------------------------
(* Centring and scaling in the viewer's load handler (STLViewer.tsx).  A     *)
(* geometry is [positions, den, nan]: vertex i has coordinates              *)
(* positions[i][k] / den, k = 1, 2, 3; nan tells that the coordinates have   *)
(* become NaN.                                                               *)

Coords == {-1, 0, 2}

Points == {<<x, y, z>> : x \in Coords, y \in Coords, z \in Coords}

\* what parse hands over: no vertex (a geometry without positions) or the
\* three vertices of a triangle
Shapes == {<<>>} \cup {<<a, b, c>> : a \in Points, b \in Points, c \in Points}

Axes == {1, 2, 3}

SetMin(S) == CHOOSE x \in S : \A y \in S : x <= y

SetMax(S) == CHOOSE x \in S : \A y \in S : y <= x

\* Box3.setFromBufferAttribute: makeEmpty(), then expandByPoint for every vertex
BoundingBox(positions) ==
    IF positions = <<>> THEN [empty |-> TRUE, min |-> <<0, 0, 0>>, max |-> <<0, 0, 0>>]
    ELSE [empty |-> FALSE,
          min |-> [k \in Axes |-> SetMin({positions[i][k] : i \in 1..Len(positions)})],
          max |-> [k \in Axes |-> SetMax({positions[i][k] : i \in 1..Len(positions)})]]

\* box.getCenter(center), times 2: (0, 0, 0) for the empty box
CenterTimes2(b) == [k \in Axes |-> IF b.empty THEN 0 ELSE b.min[k] + b.max[k]]

\* box.max.x - box.min.x alone
WidthOnly(b) == b.max[1] - b.min[1]

\* Math.max(box.max.x - box.min.x, box.max.y - box.min.y, box.max.z - box.min.z)
maxDim(b) == SetMax({b.max[k] - b.min[k] : k \in Axes})

\* const scale = 2 / maxDim
TargetSize == 2

\* const geometry = loader.parse(buffer)
ParsedGeometry(g) ==
    /\ npc = "idle"
    /\ source' = g
    /\ shape' = [positions |-> g, den |-> 1, nan |-> FALSE]
    /\ box' = box
    /\ npc' = "parsed"
    /\ UNCHANGED <<serverVars, codecVars, viewerVars, formatVars, laterVars>>

\* geometry.computeBoundingBox(); const box = geometry.boundingBox
ComputeBoundingBox ==
    /\ npc = "parsed"
    /\ box' = BoundingBox(shape.positions)
    /\ npc' = "boxed"
    /\ UNCHANGED <<source, shape>>
    /\ UNCHANGED <<serverVars, codecVars, viewerVars, formatVars, laterVars>>

\* box.getCenter(center); geometry.translate(-center.x, -center.y, -center.z),
\* which recomputes geometry.boundingBox, the object box names
Translate ==
    /\ npc = "boxed"
    /\ LET c == CenterTimes2(box)
           moved == [i \in 1..Len(shape.positions) |->
                        [k \in Axes |-> 2 * shape.positions[i][k] - c[k]]]
       IN /\ shape' = [positions |-> moved, den |-> 2 * shape.den, nan |-> shape.nan]
          /\ box' = BoundingBox(moved)
    /\ npc' = "centred"
    /\ UNCHANGED source
    /\ UNCHANGED <<serverVars, codecVars, viewerVars, formatVars, laterVars>>

\* const maxDim = Math.max(...); const scale = 2 / maxDim;
\* geometry.scale(scale, scale, scale).  The box holds coordinates times
\* shape.den, so scale is TargetSize * shape.den / maxDim(box).  An empty box
\* gives maxDim = -Infinity and scale = -0, with no vertex to multiply; a box
\* of zero size gives scale = Infinity, and 0 * Infinity is NaN.
ScaleGeometry ==
    /\ npc = "centred"
    /\ IF box.empty
       THEN shape' = shape
       ELSE IF maxDim(box) = 0
       THEN shape' = [shape EXCEPT !.nan = TRUE]
       ELSE shape' = [positions |-> [i \in 1..Len(shape.positions) |->
                                        [k \in Axes |-> TargetSize * shape.positions[i][k]]],
                      den |-> maxDim(box),
                      nan |-> shape.nan]
    /\ box' = IF box.empty \/ maxDim(box) = 0 THEN box ELSE BoundingBox(shape'.positions)
    /\ npc' = "normalized"
    /\ UNCHANGED source
    /\ UNCHANGED <<serverVars, codecVars, viewerVars, formatVars, laterVars>>

NextNormalize ==
    \/ npc = "idle" /\ \E g \in Shapes : ParsedGeometry(g)
    \/ ComputeBoundingBox
    \/ Translate
    \/ ScaleGeometry

SpecNormalize == Init /\ [][NextNormalize]_vars

----------------------------------------------------------------------------
(* Claims about centring and scaling *)

\* every vertex is the same point: the bounding box has zero size in every
\* dimension
ZeroSize(g) ==
    g # <<>> /\ \A i \in 1..Len(g) : \A k \in Axes : g[i][k] = g[1][k]

\* C19: normalizing a mesh that is empty or whose bounding box has zero size in
\* every dimension leaves all vertex coordinates unchanged; no vertex is
\* scaled by a factor obtained from dividing by a zero maximum dimension.
C19_DegenerateUnchanged ==
    (npc = "normalized" /\ (source = <<>> \/ ZeroSize(source))) =>
        /\ ~shape.nan
        /\ \A i \in 1..Len(source) : \A k \in Axes :
              shape.positions[i][k] = source[i][k] * shape.den

\* C20: after normalization of a mesh with a non-degenerate bounding box the
\* bounding box is centred on the origin on every axis, its largest dimension
\* equals the target size, and all three axes are scaled by the same factor.
C20_CentredAndScaled ==
    (npc = "normalized" /\ source # <<>> /\ ~ZeroSize(source)) =>
        LET out == shape.positions
            b == BoundingBox(out)
            I == 1..Len(source)
        IN /\ ~shape.nan
           /\ shape.den > 0
           /\ \A k \in Axes : b.min[k] + b.max[k] = 0
           /\ SetMax({b.max[k] - b.min[k] : k \in Axes}) = TargetSize * shape.den
           /\ \A i \in I, j \in I : \A k \in Axes, l \in Axes :
                 /\ (out[i][k] - out[j][k]) * (source[i][l] - source[j][l])
                       = (out[i][l] - out[j][l]) * (source[i][k] - source[j][k])
                 /\ (out[i][k] - out[j][k]) * (source[i][k] - source[j][k]) >= 0

\* a triangle 2 wide, 2 deep and 1 high: centre (1, 1, -1/2), factor 1
C20_Witness ==
    /\ npc = "normalized"
    /\ source = <<<<0, 0, 0>>, <<2, 0, 0>>, <<0, 2, -1>>>>
    /\ shape.den = 4
    /\ shape.positions = <<<<-4, -4, 2>>, <<4, -4, 2>>, <<-4, 4, -2>>>>

----------------------------------------------------------------------------
(* Two overlapping calls of DatabaseStorage.generateSTLFile.  Every await   *)
(* is a point where the other call can run.  now is the millisecond clock   *)
(* Date.now() reads; disk is the temp directory, a set of files             *)
(* [name, ts, content] with one file per path mortise_<ts>.<name>; the      *)
(* content of a .scad file is the parameter set it was generated from and   *)
(* the content of a .stl file the parameter set of the script it was        *)
(* rendered from.                                                           *)

Exists(name, ts) == \E f \in disk : f.name = name /\ f.ts = ts

Content(name, ts) == (CHOOSE f \in disk : f.name = name /\ f.ts = ts).content

\* fs.writeFile and the renderer's -o: the file at the path is replaced
WriteFile(name, ts, c) ==
    {f \in disk : ~(f.name = name /\ f.ts = ts)}
        \cup {[name |-> name, ts |-> ts, content |-> c]}

Unlink(name, ts) == {f \in disk : ~(f.name = name /\ f.ts = ts)}

\* a millisecond passes
Tick ==
    /\ now < MaxTimestamp
    /\ now' = now + 1
    /\ UNCHANGED <<inv, disk>>
    /\ UNCHANGED othersOfConc

\* const timestamp = Date.now(); scadFile and stlFile are named after it
DateNow(i) ==
    /\ inv[i].pc = "idle"
    /\ inv' = [inv EXCEPT ![i].ts = now, ![i].pc = "named"]
    /\ UNCHANGED <<now, disk>>
    /\ UNCHANGED othersOfConc

\* await fs.writeFile(scadFile, scadContent)
WriteScadOf(i) ==
    /\ inv[i].pc = "named"
    /\ disk' = WriteFile("scad", inv[i].ts, i)
    /\ inv' = [inv EXCEPT ![i].pc = "written"]
    /\ UNCHANGED now
    /\ UNCHANGED othersOfConc

\* await execAsync(`openscad -o stlFile scadFile`): the renderer reads the
\* script that is at scadFile and writes stlFile, or fails
RunOpenSCADOf(i, ok) ==
    /\ inv[i].pc = "written"
    /\ IF ok /\ Exists("scad", inv[i].ts)
       THEN /\ disk' = WriteFile("stl", inv[i].ts, Content("scad", inv[i].ts))
            /\ inv' = [inv EXCEPT ![i].pc = "rendered"]
       ELSE /\ disk' = disk
            /\ inv' = [inv EXCEPT ![i].pc = "failed"]
    /\ UNCHANGED now
    /\ UNCHANGED othersOfConc

\* const stlContent = await fs.readFile(stlFile)
ReadStlOf(i) ==
    /\ inv[i].pc = "rendered"
    /\ IF Exists("stl", inv[i].ts)
       THEN inv' = [inv EXCEPT ![i].result = Content("stl", inv[i].ts),
                               ![i].pc = "read"]
       ELSE inv' = [inv EXCEPT ![i].pc = "failed"]
    /\ UNCHANGED <<now, disk>>
    /\ UNCHANGED othersOfConc

\* await fs.unlink(scadFile), then return: unlink rejects when the file is gone
UnlinkScadOf(i) ==
    /\ inv[i].pc = "read"
    /\ IF Exists("scad", inv[i].ts)
       THEN /\ disk' = Unlink("scad", inv[i].ts)
            /\ inv' = [inv EXCEPT ![i].pc = "returned"]
       ELSE /\ disk' = disk
            /\ inv' = [inv EXCEPT ![i].pc = "failed"]
    /\ UNCHANGED now
    /\ UNCHANGED othersOfConc

NextConcurrent ==
    \/ Tick
    \/ \E i \in Invocations : DateNow(i)
    \/ \E i \in Invocations : WriteScadOf(i)
    \/ \E i \in Invocations, ok \in BOOLEAN : RunOpenSCADOf(i, ok)
    \/ \E i \in Invocations : ReadStlOf(i)
    \/ \E i \in Invocations : UnlinkScadOf(i)

SpecConcurrent == Init /\ [][NextConcurrent]_vars

\* the call is between its Date.now() and its return or throw
InFlight(i) == inv[i].pc \notin {"idle", "returned", "failed"}

\* C21: for any two invocations whose executions overlap the .scad and .stl
\* paths differ, and each invocation that returns, returns the STL rendered
\* from its own parameters.
C21_OwnTempFiles ==
    /\ \A i, j \in Invocations :
          (i # j /\ InFlight(i) /\ InFlight(j)) => inv[i].ts # inv[j].ts
    /\ \A i \in Invocations : inv[i].pc = "returned" => inv[i].result = i

----------------------------------------------------------------------------
(* Claims about the outcome of POST /api/generate *)

\* the request ended because mortiseTemplateSchema.parse threw
Rejected == pc = "responded" /\ ~mortiseTemplateSchema(body)

\* the request ended because the renderer failed or the STL could not be read
RenderFailed == pc = "responded" /\ renderStarted /\ response.status # 200

\* the error result of a rejected parameter set
RejectedResult == [status |-> 400, error |-> "Failed to generate STL file"]

\* C22: a rejected parameter set and a failure of rendering or of the
\* generated file never produce the same error result.
C22_FailureCausesDistinct ==
    /\ Rejected => response = RejectedResult
    /\ RenderFailed => response # RejectedResult

----------------------------------------------------------------------------
(* Claims about the binary layout *)

\* the byte offset the x coordinate of vertex v (1..3) of triangle k was read at
PositionOffset(k, v) == mesh.positions[9 * k + 3 * (v - 1) + 1]

\* the byte offset the x component of the normal of triangle k was read at
NormalOffset(k) == mesh.normals[9 * k + 1]

\* C23: triangle k (0-based) is read with its normal at byte 84 + 50 * k and
\* its vertices at +12, +24 and +36; after k triangles the reader's offset is
\* 84 + 50 * k; once the size check has passed every 4-byte read ends at or
\* before the buffer length.
C23_BinaryLayout ==
    /\ dpc \in {"loop", "done"} =>
          /\ reader = 84 + 50 * FacesRead
          /\ \A k \in 0..(FacesRead - 1) :
                /\ NormalOffset(k) = 84 + 50 * k
                /\ \A v \in 1..3 : PositionOffset(k, v) = 84 + 50 * k + 12 * v
          /\ maxRead <= buf.byteLength
    /\ derr # "Corrupted"

\* two triangles in a buffer of exactly 84 + 2 * 50 bytes: the last float ends
\* two bytes before the end
C23_Witness ==
    /\ dpc = "done"
    /\ buf.byteLength = 184
    /\ FacesRead = 2
    /\ reader = 184
    /\ maxRead = 182

----------------------------------------------------------------------------
(* Claims about the placement of the labels *)

\* the label lines of template_text: line k is translated by -k * line_spacing
LabelLines == 0..5

\* text(..., size = text_size, halign = "left") at the origin of line k: the
\* line's box starts at text_start_x and rises text_size above its baseline;
\* how far it runs to the right depends on the font
LineLo(k) == derived.text_start_y - k * line_spacing

LineHi(k) == LineLo(k) + text_size

\* the box of line k and the cutout rectangle have interior points in common
\* (a line has positive width, so in x it is enough that the line starts
\* inside the cutout's extent)
OverlapsCutout(k) ==
    /\ derived.cutout_x_position <= derived.text_start_x
    /\ derived.text_start_x < derived.cutout_x_position + derived.cutout_length
    /\ LineLo(k) < derived.cutout_y_position + derived.cutout_width
    /\ derived.cutout_y_position < LineHi(k)

\* C24 (stated for the bodies with bushing >= bit): for both edge positions
\* no label line overlaps the cutout rectangle.
C24_LabelsClearOfCutout ==
    (derived # None /\ NonNegativeOffset) =>
        \A k \in LabelLines : ~OverlapsCutout(k)

----------------------------------------------------------------------------
(* The viewer component's effect (STLViewer.tsx).  mounted tells whether     *)
(* containerRef.current is set.  Run e of the effect has its own scene,     *)
(* scenes[e], the set of meshes added to it; the mesh built from the fetch  *)
(* of run e is named e.  sceneRef, modelRef and animationFrameRef are the   *)
(* component's refs (0 for null).  An animation loop is a chain of          *)
(* requestAnimationFrame callbacks, named by the order it was started in;   *)
(* scheduled holds the loops that have a callback pending, and              *)
(* animationFrameRef names the loop whose pending callback id was stored    *)
(* last.  ctx is the state of the WebGL context of the current canvas.      *)

MaxLoops == 3

Active(e) == effect[e].status = "active"

\* if (modelRef.current && sceneRef.current) sceneRef.current.remove(modelRef.current)
RemoveModel(sc) ==
    IF modelRef # 0 /\ sceneRef # 0
    THEN [sc EXCEPT ![sceneRef] = @ \ {modelRef}]
    ELSE sc

\* if (animationFrameRef.current) cancelAnimationFrame(animationFrameRef.current)
CancelStored(sch) == IF animationFrameRef # 0 THEN sch \ {animationFrameRef} ELSE sch

\* the body of useEffect up to fetch(url): scene, camera, renderer and canvas
\* are created, sceneRef.current = scene, the fetch is started
RunEffect(eff, e) == [eff EXCEPT ![e] = [status |-> "active", fetch |-> "pending"]]

\* the component mounts and its effect runs for the first time
MountViewer ==
    /\ ~mounted
    /\ effect[1].status = "none"
    /\ mounted' = TRUE
    /\ effect' = RunEffect(effect, 1)
    /\ sceneRef' = 1
    /\ ctx' = "ok"
    /\ UNCHANGED <<scenes, modelRef, animationFrameRef, scheduled, loopCount, loading>>
    /\ UNCHANGED othersOfEffect

\* url or another dependency changes: the cleanup of run e, then run e + 1
ChangeUrl(e) ==
    /\ mounted
    /\ Active(e)
    /\ e + 1 \in Effects
    /\ scheduled' = CancelStored(scheduled)
    /\ scenes' = RemoveModel(scenes)
    /\ effect' = RunEffect([effect EXCEPT ![e].status = "cleaned"], e + 1)
    /\ sceneRef' = e + 1
    /\ ctx' = "ok"
    /\ UNCHANGED <<mounted, modelRef, animationFrameRef, loopCount, loading>>
    /\ UNCHANGED othersOfEffect

\* the component unmounts: containerRef.current is null when the cleanup runs
Unmount(e) ==
    /\ mounted
    /\ Active(e)
    /\ mounted' = FALSE
    /\ scheduled' = CancelStored(scheduled)
    /\ scenes' = RemoveModel(scenes)
    /\ effect' = [effect EXCEPT ![e].status = "cleaned"]
    /\ UNCHANGED <<sceneRef, modelRef, animationFrameRef, loopCount, ctx, loading>>
    /\ UNCHANGED othersOfEffect

\* fetch(url) rejects: .catch logs the error
FetchRejects(e) ==
    /\ effect[e].fetch = "pending"
    /\ effect' = [effect EXCEPT ![e].fetch = "rejected"]
    /\ UNCHANGED <<mounted, scenes, sceneRef, modelRef, animationFrameRef,
                   scheduled, loopCount, ctx, loading>>
    /\ UNCHANGED othersOfEffect

\* !response.ok: the first then throws, .catch logs the error
ResponseNotOk(e) ==
    /\ effect[e].fetch = "pending"
    /\ effect' = [effect EXCEPT ![e].fetch = "notOk"]
    /\ UNCHANGED <<mounted, scenes, sceneRef, modelRef, animationFrameRef,
                   scheduled, loopCount, ctx, loading>>
    /\ UNCHANGED othersOfEffect

\* .then(buffer => ...): skipped without a container; loader.parse throws or
\* the mesh is built, put in the scene of run e and stored, loading is
\* cleared and startAnimation() starts a loop
BufferArrives(e, parses) ==
    /\ effect[e].fetch = "pending"
    /\ (mounted /\ parses) => loopCount < MaxLoops
    /\ IF ~mounted
       THEN /\ effect' = [effect EXCEPT ![e].fetch = "skipped"]
            /\ UNCHANGED <<scenes, modelRef, animationFrameRef, scheduled,
                           loopCount, loading>>
       ELSE IF ~parses
       THEN /\ effect' = [effect EXCEPT ![e].fetch = "parseError"]
            /\ UNCHANGED <<scenes, modelRef, animationFrameRef, scheduled,
                           loopCount, loading>>
       ELSE /\ effect' = [effect EXCEPT ![e].fetch = "loaded"]
            /\ scenes' = [RemoveModel(scenes) EXCEPT ![e] = @ \cup {e}]
            /\ modelRef' = e
            /\ loading' = FALSE
            /\ loopCount' = loopCount + 1
            /\ scheduled' = scheduled \cup {loopCount + 1}
            /\ animationFrameRef' = loopCount + 1
    /\ UNCHANGED <<mounted, sceneRef, ctx>>
    /\ UNCHANGED othersOfEffect

\* the browser runs the pending callback of loop l: animate renders and
\* stores the id of its next requestAnimationFrame
AnimationFrame(l) ==
    /\ l \in scheduled
    /\ animationFrameRef' = l
    /\ UNCHANGED <<mounted, effect, scenes, sceneRef, modelRef, scheduled,
                   loopCount, ctx, loading>>
    /\ UNCHANGED othersOfEffect

\* canvas 'webglcontextlost'
ContextLost ==
    /\ \E e \in Effects : Active(e)
    /\ ctx = "ok"
    /\ ctx' = "lost"
    /\ scheduled' = CancelStored(scheduled)
    /\ animationFrameRef' = 0
    /\ UNCHANGED <<mounted, effect, scenes, sceneRef, modelRef, loopCount, loading>>
    /\ UNCHANGED othersOfEffect

\* canvas 'webglcontextrestored': startAnimation()
ContextRestored ==
    /\ \E e \in Effects : Active(e)
    /\ ctx = "lost"
    /\ loopCount < MaxLoops
    /\ ctx' = "ok"
    /\ loopCount' = loopCount + 1
    /\ scheduled' = scheduled \cup {loopCount + 1}
    /\ animationFrameRef' = loopCount + 1
    /\ UNCHANGED <<mounted, effect, scenes, sceneRef, modelRef, loading>>
    /\ UNCHANGED othersOfEffect

NextEffect ==
    \/ MountViewer
    \/ \E e \in Effects : ChangeUrl(e)
    \/ \E e \in Effects : Unmount(e)
    \/ \E e \in Effects : FetchRejects(e)
    \/ \E e \in Effects : ResponseNotOk(e)
    \/ \E e \in Effects, parses \in BOOLEAN : BufferArrives(e, parses)
    \/ \E l \in 1..MaxLoops : AnimationFrame(l)
    \/ ContextLost
    \/ ContextRestored

SpecEffect == Init /\ [][NextEffect]_vars

----------------------------------------------------------------------------
(* Claims about the viewer component *)

\* the fetch of run e settles in this step
Settles(e) == effect[e].fetch = "pending" /\ effect'[e].fetch # "pending"

\* C25: once the cleanup of an effect run has happened, a fetch of that run
\* that resolves afterwards adds no mesh to a scene, does not overwrite the
\* model reference and starts no animation loop.
C25_StaleFetchInert ==
    [][\A e \in Effects :
          (effect[e].status = "cleaned" /\ Settles(e)) =>
              /\ scenes' = scenes
              /\ modelRef' = modelRef
              /\ scheduled' = scheduled]_vars

\* the effect has run once only: no change of url or props so far
SingleRun == \A e \in Effects : e # 1 => effect[e].status = "none"

\* C26 (stated for one run of the effect): whatever the order of load
\* completion, context loss and context restoration, at most one animation
\* loop is scheduled, the stored animation-frame id is that loop's, and after
\* the cleanup no loop is scheduled.
C26_OneAnimationLoop ==
    SingleRun =>
        /\ Cardinality(scheduled) <= 1
        /\ scheduled # {} => animationFrameRef \in scheduled
        /\ effect[1].status = "cleaned" => scheduled = {}

\* the fetch of the current run has ended, one way or the other
LoadEnded(e) == Active(e) /\ effect[e].fetch \notin {"none", "pending"}

\* C27: when a load the viewer started has ended (fetch failed, response not
\* ok, parse error or success), loading is false.
C27_LoadingCleared ==
    \A e \in Effects : (mounted /\ LoadEnded(e)) => ~loading

----------------------------------------------------------------------------
(* The form (MortiseForm, src/unnamed/part_008).  Object URLs are named by   *)
(* the order URL.createObjectURL returned them in; previewUrl is the state  *)
(* variable (0 for null), revoked the set of URLs URL.revokeObjectURL was   *)
(* called on, clicks the number of a.click() calls of handleDownload,        *)
(* stlError whether an error message is stored.  The                        *)
(* preview dialog is modal: the form behind it takes no clicks while it is  *)
(* open.                                                                    *)

MaxUrls == 4

MaxClicks == 4

\* form.handleSubmit(onSubmit): the submit button is disabled while pending
OnSubmit ==
    /\ ~showPreview
    /\ ~isPending
    /\ revoked' = IF previewUrl # 0 THEN revoked \cup {previewUrl} ELSE revoked
    /\ isPending' = TRUE
    /\ stlError' = FALSE
    /\ UNCHANGED <<previewUrl, showPreview, urlCount, clicks>>
    /\ UNCHANGED othersOfForm

\* mutationFn returns URL.createObjectURL(blob); onSuccess stores it and
\* opens the dialog
GenerateSucceeds ==
    /\ isPending
    /\ urlCount < MaxUrls
    /\ urlCount' = urlCount + 1
    /\ previewUrl' = urlCount + 1
    /\ showPreview' = TRUE
    /\ isPending' = FALSE
    /\ UNCHANGED <<revoked, clicks, stlError>>
    /\ UNCHANGED othersOfForm

\* mutationFn throws (response not ok, empty blob) after setStlError(message);
\* onError shows a toast
GenerateFails ==
    /\ isPending
    /\ isPending' = FALSE
    /\ stlError' = TRUE
    /\ UNCHANGED <<previewUrl, showPreview, revoked, urlCount, clicks>>
    /\ UNCHANGED othersOfForm

\* Dialog onOpenChange={setShowPreview}: the user closes the dialog
CloseDialog ==
    /\ showPreview
    /\ showPreview' = FALSE
    /\ UNCHANGED <<previewUrl, isPending, revoked, urlCount, clicks, stlError>>
    /\ UNCHANGED othersOfForm

\* if (!previewUrl) return; a.href = previewUrl; a.click()
handleDownload ==
    /\ clicks < MaxClicks
    /\ clicks' = IF previewUrl # 0 THEN clicks + 1 ELSE clicks
    /\ UNCHANGED <<previewUrl, showPreview, isPending, revoked, urlCount, stlError>>
    /\ UNCHANGED othersOfForm

\* {previewUrl && <Button onClick={handleDownload}>} next to the submit button
ClickFormDownload ==
    /\ ~showPreview
    /\ previewUrl # 0
    /\ handleDownload

\* useEffect on [previewUrl, showPreview]: loadSTL(previewUrl) in the open
\* dialog throws and its catch stores the message
LoadPreviewFails ==
    /\ showPreview
    /\ previewUrl # 0
    /\ ~stlError
    /\ stlError' = TRUE
    /\ UNCHANGED <<previewUrl, showPreview, isPending, revoked, urlCount, clicks>>
    /\ UNCHANGED othersOfForm

\* the Dismiss button under the error text in the dialog: setStlError(null)
DismissError ==
    /\ showPreview
    /\ stlError
    /\ stlError' = FALSE
    /\ UNCHANGED <<previewUrl, showPreview, isPending, revoked, urlCount, clicks>>
    /\ UNCHANGED othersOfForm

\* the dialog's button, disabled={!previewUrl || mutation.isPending}
ClickDialogDownload ==
    /\ showPreview
    /\ previewUrl # 0
    /\ ~isPending
    /\ handleDownload

NextForm ==
    \/ OnSubmit
    \/ GenerateSucceeds
    \/ GenerateFails
    \/ CloseDialog
    \/ LoadPreviewFails
    \/ DismissError
    \/ ClickFormDownload
    \/ ClickDialogDownload

SpecForm == Init /\ [][NextForm]_vars

\* C28: in every sequence of submit, generate-success, generate-failure and
\* download clicks, handleDownload is only invoked with a preview URL that
\* has not been revoked.
C28_DownloadUrlNotRevoked ==
    [][clicks' # clicks => previewUrl \notin revoked]_vars

----------------------------------------------------------------------------
(* GET /api/preview/:filename and GET /api/download/:filename (routes.ts).  *)
(* tempDir is the set of STL files in the temp directory, generated the    *)
(* names already used (a file name carries the time of its generation, so  *)
(* a name is written once).  A request is [kind, file, pc, late, err,       *)
(* status]: late records that the file had been removed when the request    *)
(* arrived, err the error of the transfer, status the status answered (0     *)
(* when nothing was answered).                                              *)

Filenames == {"mortise_1.stl", "mortise_2.stl"}

Kinds == {"preview", "download"}

\* a download that removes the file whatever the transfer's outcome
UnlinkAlways(err) == TRUE

\* if (!err) await fs.unlink(filePath)
UnlinkAfter(err) == ~err

\* generateSTLFile leaves mortise_<timestamp>.stl in the temp directory
GenerateStl(f) ==
    /\ f \notin generated
    /\ generated' = generated \cup {f}
    /\ tempDir' = tempDir \cup {f}
    /\ UNCHANGED req
    /\ UNCHANGED othersOfRoute

\* a request for file f reaches its handler
Arrive(r, kind, f) ==
    /\ req[r].pc \in {"idle", "done"}
    /\ req' = [req EXCEPT ![r] = [kind |-> kind, file |-> f, pc |-> "access",
                                  late |-> f \in generated /\ f \notin tempDir,
                                  err |-> FALSE, status |-> 0]]
    /\ UNCHANGED <<tempDir, generated>>
    /\ UNCHANGED othersOfRoute

\* exists = await fs.access(filePath)...; if (!exists) return res.status(404)
Access(r) ==
    /\ req[r].pc = "access"
    /\ IF req[r].file \in tempDir
       THEN req' = [req EXCEPT ![r].pc = "send"]
       ELSE req' = [req EXCEPT ![r].pc = "done", ![r].status = 404]
    /\ UNCHANGED <<tempDir, generated>>
    /\ UNCHANGED othersOfRoute

\* res.sendFile(filePath): a missing file is answered 404 by the error
\* middleware, an aborted transfer is not answered
SendPreview(r, aborted) ==
    /\ req[r].pc = "send"
    /\ req[r].kind = "preview"
    /\ LET missing == req[r].file \notin tempDir
       IN req' = [req EXCEPT ![r].pc = "done",
                             ![r].err = missing \/ aborted,
                             ![r].status = IF missing THEN 404
                                           ELSE IF aborted THEN 0 ELSE 200]
    /\ UNCHANGED <<tempDir, generated>>
    /\ UNCHANGED othersOfRoute

\* res.download(filePath, "mortise_template.stl", async (err) => ...)
SendDownload(r, aborted) ==
    /\ req[r].pc = "send"
    /\ req[r].kind = "download"
    /\ LET err == req[r].file \notin tempDir \/ aborted
       IN /\ req' = [req EXCEPT ![r].pc = "done",
                                ![r].err = err,
                                ![r].status = IF err THEN 0 ELSE 200]
          /\ tempDir' = IF UnlinkAfter(err) THEN tempDir \ {req[r].file} ELSE tempDir
    /\ UNCHANGED generated
    /\ UNCHANGED othersOfRoute

NextRoute ==
    \/ \E f \in Filenames : GenerateStl(f)
    \/ \E r \in Requests, kind \in Kinds, f \in Filenames : Arrive(r, kind, f)
    \/ \E r \in Requests : Access(r)
    \/ \E r \in Requests, aborted \in BOOLEAN : SendPreview(r, aborted)
    \/ \E r \in Requests, aborted \in BOOLEAN : SendDownload(r, aborted)

SpecRoute == Init /\ [][NextRoute]_vars

\* request r is a download of f whose transfer completes without error in
\* this step
CompletesDownload(r, f) ==
    /\ req[r].kind = "download"
    /\ req[r].file = f
    /\ req[r].pc = "send"
    /\ req'[r].pc = "done"
    /\ ~req'[r].err

----------------------------------------------------------------------------
(* Claims about the script file *)

\* generateSTLFile has returned or thrown
Finished == pc \in {"unlinked", "failed", "responded"}

\* C30: when generateSTLFile finishes, whether it returns or throws
\* (renderer failure, unreadable STL), the .scad file it wrote is no longer
\* in the temp directory.
C30_ScadRemoved ==
    Finished => ScadFile(timestamp) \notin files

====
